---- MODULE Spec2Model ----
(***************************************************************************)
(* The Groot Dictionary page (src/app/page.tsx): one React function        *)
(* component with its hook state, its effects, the delayed batch append of *)
(* loadMoreEntries, the filtered view, the dark-mode preference kept in    *)
(* localStorage, and the scroll tracking.                                  *)
(*                                                                         *)
(* Hook state variables hold the values of the last committed render: the  *)
(* values every closure created by that render reads.  A setState call     *)
(* made outside a discrete user event is queued and applied by the next    *)
(* Render; until then the observer callback and the timers of the last     *)
(* render can still run.  Click and input handlers are flushed             *)
(* synchronously by React and are modelled with their render and effects   *)
(* in one step.  An exception that escapes a render or an effect unmounts  *)
(* the component: crashed becomes true and nothing runs afterwards.        *)
(***************************************************************************)
EXTENDS Integers, Sequences, FiniteSets, TLC

VARIABLES
    translations,   \* useState<string[]>([])            (line 35)
    entries,        \* useState<Translation[]>([])       (line 26)
    loading,        \* useState(false)                   (line 27)
    hasMore,        \* useState(true)                    (line 28)
    darkMode,       \* useState(false)                   (line 29)
    searchTerm,     \* useState("")                      (line 30)
    showScrollTop,  \* useState(false)                   (line 31)
    currentPage,    \* useState(0)                       (line 32)
    queued,         \* state updates enqueued and not yet rendered
    timers,         \* pending requestAnimationFrame/setTimeout callbacks, FIFO
    storage,        \* localStorage item "groot-dark-mode": <<>> when absent
    writes,         \* the values passed to localStorage.setItem, in order
    toggleLog,      \* darkMode and number of writes seen by each toggleDarkMode call
    fetchState,     \* "idle", "pending" or "done": the loadTranslations promise
    mounted,        \* the mount effects have run
    crashed         \* an exception escaped a render or an effect

vars == <<translations, entries, loading, hasMore, darkMode, searchTerm,
          showScrollTop, currentPage, queued, timers, storage, writes,
          toggleLog, fetchState, mounted, crashed>>

(***************************************************************************)
(* Bounds of the model.                                                    *)
(***************************************************************************)
MaxTimers == 2
MaxPages == 3
MaxToggles == 2

(***************************************************************************)
(* Program constants.                                                      *)
(***************************************************************************)
entriesPerPage == 10
CapFactor == 20
ScrollThreshold == 500

(***************************************************************************)
(* Strings are sequences of one-character strings.                         *)
(***************************************************************************)
Lower(c) ==
    CASE c = "A" -> "a" [] c = "B" -> "b" [] c = "C" -> "c" [] c = "M" -> "m"
      [] c = "P" -> "p" [] c = "T" -> "t" [] c = "Y" -> "y" [] c = "Z" -> "z"
      [] OTHER -> c

toLowerCase(s) == [i \in 1..Len(s) |-> Lower(s[i])]

IsSpace(c) == c = " "

RECURSIVE trimStart(_)
trimStart(s) ==
    IF s # <<>> /\ IsSpace(Head(s)) THEN trimStart(Tail(s)) ELSE s

RECURSIVE trimEnd(_)
trimEnd(s) ==
    IF s # <<>> /\ IsSpace(s[Len(s)]) THEN trimEnd(SubSeq(s, 1, Len(s) - 1)) ELSE s

trim(s) == trimEnd(trimStart(s))

includes(s, sub) ==
    \E i \in 0..(Len(s) - Len(sub)) : SubSeq(s, i + 1, i + Len(sub)) = sub

(***************************************************************************)
(* JavaScript values, as records of one shape.                             *)
(***************************************************************************)
Undef == [t |-> "undefined", b |-> FALSE, n |-> 0, s |-> <<>>, items |-> <<>>]
Null == [t |-> "null", b |-> FALSE, n |-> 0, s |-> <<>>, items |-> <<>>]
Bool(x) == [t |-> "boolean", b |-> x, n |-> 0, s |-> <<>>, items |-> <<>>]
Num(x) == [t |-> "number", b |-> FALSE, n |-> x, s |-> <<>>, items |-> <<>>]
Str(x) == [t |-> "string", b |-> FALSE, n |-> 0, s |-> x, items |-> <<>>]
List(x) == [t |-> "array", b |-> FALSE, n |-> 0, s |-> <<>>, items |-> x]
\* an object: items is <<v>> when it has the field grootTranslations = v
Obj(x) == [t |-> "object", b |-> FALSE, n |-> 0, s |-> <<>>, items |-> x]

Truthy(v) ==
    CASE v.t = "undefined" -> FALSE
      [] v.t = "null" -> FALSE
      [] v.t = "boolean" -> v.b
      [] v.t = "number" -> v.n # 0
      [] v.t = "string" -> v.s # <<>>
      [] OTHER -> TRUE

Not(v) == Bool(~Truthy(v))

\* v.length is a number only for arrays and strings; it is undefined otherwise
HasLength(v) == v.t \in {"array", "string"}
LengthOf(v) == IF v.t = "array" THEN Len(v.items) ELSE Len(v.s)
\* v.length === 0  and  v.length > 0  (both false when the length is undefined)
LengthIsZero(v) == HasLength(v) /\ LengthOf(v) = 0
LengthIsPositive(v) == HasLength(v) /\ LengthOf(v) > 0

\* v[i], i a 0-based index
Index(v, i) ==
    CASE v.t = "array" /\ i < Len(v.items) -> v.items[i + 1]
      [] v.t = "string" /\ i < Len(v.s) -> Str(<<v.s[i + 1]>>)
      [] OTHER -> Undef

(***************************************************************************)
(* The fallback list: ten strings, each abbreviated to the initials of its *)
(* first two words.                                                        *)
(***************************************************************************)
FALLBACK_TRANSLATIONS ==
    List(<< Str(<<"Z", "c">>), Str(<<"T", "q">>), Str(<<"Y", "b">>),
            Str(<<"C", "s">>), Str(<<"C", "f">>), Str(<<"M", "p">>),
            Str(<<"T", "a">>), Str(<<"T", "v">>), Str(<<"P", "p">>),
            Str(<<"M", "t">>) >>)

(***************************************************************************)
(* What fetch("/data/translations.json") can give.                         *)
(***************************************************************************)
S2 == Str(<<"b", " ", "a">>)

FieldValues ==
    { Null, Num(0), Num(5), Str(<<>>), Str(<<"A">>),
      List(<<>>), List(<<S2>>), List(<<Num(1)>>) }

JsonData == {Null, Num(5), Obj(<<>>)} \cup {Obj(<<v>>) : v \in FieldValues}

FetchOutcomes ==
    { [kind |-> k, data |-> Null] : k \in {"neterr", "notok", "html", "badjson"} }
    \cup { [kind |-> "json", data |-> d] : d \in JsonData }

\* data.grootTranslations : throws for null, undefined for a missing field
FieldThrows(d) == d.t \in {"null", "undefined"}
Field(d) == IF d.t = "object" /\ d.items # <<>> THEN d.items[1] ELSE Undef

\* the value loadTranslations passes to setTranslations
loadTranslations(o) ==
    IF o.kind # "json" THEN FALLBACK_TRANSLATIONS
    ELSE IF FieldThrows(o.data) THEN FALLBACK_TRANSLATIONS
    ELSE LET f == Field(o.data)
             loadedTranslations == IF Truthy(f) THEN f ELSE List(<<>>)
         IN  IF LengthIsZero(loadedTranslations) THEN FALLBACK_TRANSLATIONS
             ELSE loadedTranslations

(***************************************************************************)
(* localStorage and JSON for the dark-mode preference.                     *)
(***************************************************************************)
StorageContents == { <<>>, <<"">>, <<"true">>, <<"false">>, <<"1">>, <<"abc">> }

JSONparseThrows(str) == str \notin {"true", "false", "1"}

JSONparse_anyStringIsTrue(str) == Bool(TRUE)

JSONparse(str) ==
    CASE str = "true" -> Bool(TRUE)
      [] str = "false" -> Bool(FALSE)
      [] OTHER -> Num(1)

JSONstringify(v) ==
    CASE v.t = "boolean" -> (IF v.b THEN "true" ELSE "false")
      [] OTHER -> "1"

(***************************************************************************)
(* The filtered view.                                                      *)
(***************************************************************************)
SearchTerms == { <<>>, <<" ">>, <<"a">>, <<"B">>, <<" ", "a">> }

\* entry.text.toLowerCase() throws when text is not a string
FilterThrows(es, term) ==
    /\ trim(term) # <<>>
    /\ \E i \in 1..Len(es) : es[i].text.t # "string"

\* a variant that trims the term before matching
Matches_trimmedTerm(entry, term) ==
    /\ entry.text.t = "string"
    /\ includes(toLowerCase(entry.text.s), toLowerCase(trim(term)))

Matches(entry, term) ==
    /\ entry.text.t = "string"
    /\ includes(toLowerCase(entry.text.s), toLowerCase(term))

\* a variant that shows nothing until a term is typed
filteredEntries_blankShowsNothing(es, term) ==
    IF trim(term) = <<>> THEN <<>>
    ELSE SelectSeq(es, LAMBDA entry : Matches(entry, term))

filteredEntries(es, term) ==
    IF trim(term) = <<>> THEN es
    ELSE SelectSeq(es, LAMBDA entry : Matches(entry, term))

(***************************************************************************)
(* The queue of state updates not yet rendered.  A field is <<>> when no   *)
(* update of that hook is pending; entries and pages accumulate the        *)
(* functional updates of setEntries and setCurrentPage.                    *)
(***************************************************************************)
NoUpdates ==
    [translations |-> <<>>, entries |-> <<>>, pages |-> 0, loading |-> <<>>,
     hasMore |-> <<>>, darkMode |-> <<>>]

Pending(field, current) == IF field = <<>> THEN current ELSE field[1]

\* the main view (search input, buttons, observer target) is rendered
MainView == ~(LengthIsZero(translations) /\ Len(entries) = 0)

(***************************************************************************)
(* loadMoreEntries.                                                        *)
(***************************************************************************)
\* the early return of loadMoreEntries, on the values its closure holds
Rejects(ld, hm, tr) == ld \/ ~hm \/ LengthIsZero(tr)

\* the values the delayed callback closes over
Timer(page, tr, len) == [currentPage |-> page, translations |-> tr, entriesLength |-> len]

\* the batch built by the timeout callback
newEntries(tm) ==
    LET startIndex == tm.currentPage * entriesPerPage
    IN  [i \in 1..entriesPerPage |->
            [id |-> startIndex + (i - 1),
             text |-> IF LengthIsPositive(tm.translations)
                      THEN Index(tm.translations,
                                 (startIndex + (i - 1)) % LengthOf(tm.translations))
                      ELSE Undef]]

\* setEntries((prev) => [...prev, ...newEntries])
appendEntries_prepends(prev, batch) == batch \o prev

appendEntries(prev, batch) == prev \o batch

\* entries.length + newEntries.length >= translations.length * 20
ReachedCap(tm) ==
    /\ HasLength(tm.translations)
    /\ tm.entriesLength + entriesPerPage >= LengthOf(tm.translations) * CapFactor

Init ==
    /\ translations = List(<<>>)
    /\ entries = <<>>
    /\ loading = FALSE
    /\ hasMore = TRUE
    /\ darkMode = Bool(FALSE)
    /\ searchTerm = <<>>
    /\ showScrollTop = FALSE
    /\ currentPage = 0
    /\ queued = NoUpdates
    /\ timers = <<>>
    /\ storage \in StorageContents
    /\ writes = <<>>
    /\ toggleLog = <<>>
    /\ fetchState = "idle"
    /\ mounted = FALSE
    /\ crashed = FALSE

(***************************************************************************)
(* The effects of the first render, in source order: loadTranslations is   *)
(* started, the saved preference is read, the preference is written, the   *)
(* scroll listener is attached.  The initial-load effect and the observer  *)
(* effect find no translations and no observer target.                     *)
(***************************************************************************)
Mount ==
    /\ ~mounted /\ ~crashed
    /\ fetchState' = "pending"
    /\ LET saved == storage
           truthy == saved # <<>> /\ saved[1] # ""
       IN  IF truthy /\ JSONparseThrows(saved[1])
           THEN /\ crashed' = TRUE
                /\ UNCHANGED <<queued, storage, writes, mounted>>
           ELSE /\ queued' = IF truthy
                             THEN [queued EXCEPT !.darkMode = <<JSONparse(saved[1])>>]
                             ELSE queued
                /\ storage' = <<JSONstringify(darkMode)>>
                /\ writes' = Append(writes, JSONstringify(darkMode))
                /\ mounted' = TRUE
                /\ UNCHANGED crashed
    /\ UNCHANGED <<translations, entries, loading, hasMore, darkMode, searchTerm,
                   showScrollTop, currentPage, timers, toggleLog>>

\* the fetch settles and loadTranslations calls setTranslations
FetchSettles ==
    /\ mounted /\ ~crashed /\ fetchState = "pending"
    /\ \E o \in FetchOutcomes :
          queued' = [queued EXCEPT !.translations = <<loadTranslations(o)>>]
    /\ fetchState' = "done"
    /\ UNCHANGED <<translations, entries, loading, hasMore, darkMode, searchTerm,
                   showScrollTop, currentPage, timers, storage, writes, toggleLog,
                   mounted, crashed>>

(***************************************************************************)
(* A render of the queued updates, with the effects whose dependencies     *)
(* changed: the preference write, and the initial-load effect calling the  *)
(* loadMoreEntries of this render.                                         *)
(***************************************************************************)
Render ==
    /\ mounted /\ ~crashed /\ queued # NoUpdates
    /\ LET tr == Pending(queued.translations, translations)
           es == appendEntries(entries, queued.entries)
           pg == currentPage + queued.pages
           ld == Pending(queued.loading, loading)
           hm == Pending(queued.hasMore, hasMore)
           dm == Pending(queued.darkMode, darkMode)
           depsChanged == <<pg, ld, hm, tr, Len(es)>>
                            # <<currentPage, loading, hasMore, translations, Len(entries)>>
           initialLoad == depsChanged /\ LengthIsPositive(tr) /\ Len(es) = 0
           accepted == initialLoad /\ ~Rejects(ld, hm, tr)
       IN  IF es # entries /\ FilterThrows(es, searchTerm)
           THEN /\ crashed' = TRUE
                /\ UNCHANGED <<translations, entries, loading, hasMore, darkMode,
                               currentPage, queued, timers, storage, writes>>
           ELSE /\ translations' = tr
                /\ entries' = es
                /\ currentPage' = pg
                /\ loading' = ld
                /\ hasMore' = hm
                /\ darkMode' = dm
                /\ IF dm # darkMode
                   THEN /\ storage' = <<JSONstringify(dm)>>
                        /\ writes' = Append(writes, JSONstringify(dm))
                   ELSE UNCHANGED <<storage, writes>>
                /\ IF accepted
                   THEN /\ queued' = [NoUpdates EXCEPT !.loading = <<TRUE>>]
                        /\ timers' = Append(timers, Timer(pg, tr, Len(es)))
                   ELSE /\ queued' = NoUpdates
                        /\ UNCHANGED timers
                /\ UNCHANGED crashed
    /\ UNCHANGED <<searchTerm, showScrollTop, toggleLog, fetchState, mounted>>

(***************************************************************************)
(* The IntersectionObserver callback of the last render's observer effect. *)
(***************************************************************************)
VisibilitySignal ==
    /\ mounted /\ ~crashed /\ MainView
    /\ \E isIntersecting \in BOOLEAN :
          IF isIntersecting /\ hasMore /\ ~loading
             /\ ~Rejects(loading, hasMore, translations)
          THEN /\ Len(timers) < MaxTimers
               /\ currentPage + queued.pages + Len(timers) < MaxPages
               /\ queued' = [queued EXCEPT !.loading = <<TRUE>>]
               /\ timers' = Append(timers, Timer(currentPage, translations, Len(entries)))
          ELSE UNCHANGED <<queued, timers>>
    /\ UNCHANGED <<translations, entries, loading, hasMore, darkMode, searchTerm,
                   showScrollTop, currentPage, storage, writes, toggleLog,
                   fetchState, mounted, crashed>>

(***************************************************************************)
(* The delayed callback of the oldest accepted loadMoreEntries call.       *)
(***************************************************************************)
TimerFires ==
    /\ ~crashed /\ timers # <<>>
    /\ LET tm == Head(timers)
       IN  queued' = [queued EXCEPT
                        !.entries = appendEntries(@, newEntries(tm)),
                        !.pages = @ + 1,
                        !.loading = <<FALSE>>,
                        !.hasMore = IF ReachedCap(tm) THEN <<FALSE>> ELSE @]
    /\ timers' = Tail(timers)
    /\ UNCHANGED <<translations, entries, loading, hasMore, darkMode, searchTerm,
                   showScrollTop, currentPage, storage, writes, toggleLog,
                   fetchState, mounted, crashed>>

(***************************************************************************)
(* User events.                                                            *)
(***************************************************************************)
\* onChange of the search input: setSearchTerm and the synchronous re-render
SetSearchTerm ==
    /\ mounted /\ ~crashed /\ MainView
    /\ \E term \in SearchTerms :
          IF FilterThrows(entries, term)
          THEN crashed' = TRUE /\ UNCHANGED searchTerm
          ELSE searchTerm' = term /\ UNCHANGED crashed
    /\ UNCHANGED <<translations, entries, loading, hasMore, darkMode, showScrollTop,
                   currentPage, queued, timers, storage, writes, toggleLog,
                   fetchState, mounted>>

\* onClick of the theme button: setDarkMode((prev) => !prev), the synchronous
\* re-render and the preference write effect
toggleDarkMode ==
    /\ mounted /\ ~crashed /\ MainView
    /\ queued.darkMode = <<>>
    /\ Len(toggleLog) < MaxToggles
    /\ darkMode' = Not(darkMode)
    /\ IF darkMode' # darkMode
       THEN /\ storage' = <<JSONstringify(darkMode')>>
            /\ writes' = Append(writes, JSONstringify(darkMode'))
       ELSE UNCHANGED <<storage, writes>>
    /\ toggleLog' = Append(toggleLog, [before |-> darkMode, nwrites |-> Len(writes)])
    /\ UNCHANGED <<translations, entries, loading, hasMore, searchTerm, showScrollTop,
                   currentPage, queued, timers, fetchState, mounted, crashed>>

\* the window scroll listener: setShowScrollTop(window.scrollY > 500), rendered
\* in a pass of its own that changes showScrollTop alone
handleScroll(y) == y > ScrollThreshold

ScrollOffsets == {0, 600}

Scroll ==
    /\ mounted /\ ~crashed
    /\ \E y \in ScrollOffsets : showScrollTop' = handleScroll(y)
    /\ UNCHANGED <<translations, entries, loading, hasMore, darkMode, searchTerm,
                   currentPage, queued, timers, storage, writes, toggleLog,
                   fetchState, mounted, crashed>>

\* onClick of the Random button: one entry of the filtered view is scrolled
\* into view, and the scroll listener sees the new offset
getRandomDefinition ==
    /\ mounted /\ ~crashed /\ MainView
    /\ LET view == filteredEntries(entries, searchTerm)
       IN  IF Len(view) = 0
           THEN UNCHANGED showScrollTop
           ELSE \E randomIndex \in 1..Len(view), y \in ScrollOffsets :
                   showScrollTop' = handleScroll(y)
    /\ UNCHANGED <<translations, entries, loading, hasMore, darkMode, searchTerm,
                   currentPage, queued, timers, storage, writes, toggleLog,
                   fetchState, mounted, crashed>>

\* onClick of the scroll-to-top button, rendered while showScrollTop holds:
\* window.scrollTo({top: 0}), and the scroll listener sees offset 0
scrollToTop ==
    /\ mounted /\ ~crashed /\ MainView /\ showScrollTop
    /\ showScrollTop' = handleScroll(0)
    /\ UNCHANGED <<translations, entries, loading, hasMore, darkMode, searchTerm,
                   currentPage, queued, timers, storage, writes, toggleLog,
                   fetchState, mounted, crashed>>

Next ==
    \/ Mount
    \/ FetchSettles
    \/ Render
    \/ VisibilitySignal
    \/ TimerFires
    \/ SetSearchTerm
    \/ toggleDarkMode
    \/ Scroll
    \/ getRandomDefinition
    \/ scrollToTop

Spec == Init /\ [][Next]_vars

(***************************************************************************)
(* The specification without the visibility signal: the observer target    *)
(* never comes into view.  Mount effects run, the fetch settles, scheduled *)
(* renders happen and started timers fire.                                 *)
(***************************************************************************)
NextNoSignal ==
    \/ Mount
    \/ FetchSettles
    \/ Render
    \/ TimerFires
    \/ SetSearchTerm
    \/ toggleDarkMode
    \/ Scroll
    \/ getRandomDefinition
    \/ scrollToTop

SpecNoSignal ==
    /\ Init
    /\ [][NextNoSignal]_vars
    /\ WF_vars(Mount)
    /\ WF_vars(FetchSettles)
    /\ WF_vars(Render)
    /\ WF_vars(TimerFires)

(***************************************************************************)
(* Properties.                                                             *)
(***************************************************************************)
IsStringList(v) ==
    v.t = "array" /\ \A i \in 1..Len(v.items) : v.items[i].t = "string"

NonEmptySourceList(v) == IsStringList(v) /\ Len(v.items) >= 1

RECURSIVE IsSubsequence(_, _)
IsSubsequence(sub, seq) ==
    IF sub = <<>> THEN TRUE
    ELSE IF seq = <<>> THEN FALSE
    ELSE IF Head(sub) = Head(seq) THEN IsSubsequence(Tail(sub), Tail(seq))
    ELSE IsSubsequence(sub, Tail(seq))

\* C1: the entry at position k (0-based) of EntryLog has id = k and
\* text = SourceList[k mod len(SourceList)]: ids are 0..len-1 with no gap and
\* no duplicate.
C1_IdsAndTextsFollowPosition ==
    \A k \in 1..Len(entries) :
        /\ entries[k].id = k - 1
        /\ NonEmptySourceList(translations) =>
              entries[k].text = Index(translations, (k - 1) % LengthOf(translations))

\* C2: at most one requestMore batch is in flight at any time: an invocation
\* that arrives before the delayed append of an accepted one has completed is
\* dropped.
C2_AtMostOneBatchInFlight == Len(timers) <= 1

\* C3: for a non-empty SourceList, continuation is true exactly while
\* len(EntryLog) < 20 * len(SourceList), and len(EntryLog) never exceeds
\* 20 * len(SourceList).
C3_ContinuationUntilCap ==
    NonEmptySourceList(translations) =>
        /\ Len(entries) <= CapFactor * LengthOf(translations)
        /\ hasMore <=> (Len(entries) < CapFactor * LengthOf(translations))

\* C4: once the Source Loader has run, SourceList is the fallback list or the
\* payload's non-empty list of strings: never empty, never a value that is not
\* a list of strings.
C4_SourceListIsNonEmptyStringList ==
    fetchState = "done" =>
        NonEmptySourceList(Pending(queued.translations, translations))

\* C5 (as claimed): for every non-empty SearchTerm, whitespace-only terms
\* included, every entry of FilteredView has a text whose lowercased form
\* contains the lowercased SearchTerm.
C5_NonEmptyTermFiltersByContainment ==
    searchTerm # <<>> =>
        LET view == filteredEntries(entries, searchTerm)
        IN  \A i \in 1..Len(view) :
                /\ view[i].text.t = "string"
                /\ \E k \in 0..(Len(view[i].text.s) - Len(searchTerm)) :
                      toLowerCase(SubSeq(view[i].text.s, k + 1, k + Len(searchTerm)))
                        = toLowerCase(searchTerm)

\* C5 (amended): for every SearchTerm that is not made only of whitespace
\* (leading or trailing whitespace is kept and matched), every entry of
\* FilteredView has a text whose lowercased form contains the lowercased
\* SearchTerm; for a SearchTerm made only of whitespace FilteredView is the
\* whole EntryLog.
C5_NonBlankTermFiltersByContainment ==
    \A term \in SearchTerms :
        ~FilterThrows(entries, term) =>
            LET view == filteredEntries(entries, term)
            IN  IF \A c \in 1..Len(term) : IsSpace(term[c])
                THEN view = entries
                ELSE \A i \in 1..Len(view) :
                        /\ view[i].text.t = "string"
                        /\ \E k \in 0..(Len(view[i].text.s) - Len(term)) :
                              toLowerCase(SubSeq(view[i].text.s, k + 1, k + Len(term)))
                                = toLowerCase(term)

\* a term with leading whitespace is typed and the view shows matching entries
C5_Witness ==
    /\ searchTerm = <<" ", "a">>
    /\ entries # <<>>
    /\ filteredEntries(entries, searchTerm) # <<>>

\* C6: for every SearchTerm, FilteredView is a subsequence of EntryLog in
\* EntryLog's order, and for the empty SearchTerm it is EntryLog itself.
C6_ViewIsSubsequence ==
    /\ ~FilterThrows(entries, searchTerm)
    /\ IsSubsequence(filteredEntries(entries, searchTerm), entries)
    /\ \A term \in SearchTerms :
          ~FilterThrows(entries, term) =>
              IsSubsequence(filteredEntries(entries, term), entries)
    /\ filteredEntries(entries, <<>>) = entries

\* a term is typed that keeps some entries and drops others
C6_Witness ==
    /\ searchTerm = <<"B">>
    /\ filteredEntries(entries, searchTerm) # <<>>
    /\ Len(filteredEntries(entries, searchTerm)) < Len(entries)

\* C7: requestMore is a no-op while continuation is false or SourceList is
\* empty: EntryLog stays empty, loading stays false and no append is
\* scheduled until the Source Loader has produced a non-empty SourceList, and
\* once continuation is false EntryLog, pageCount, loading and continuation
\* no longer change and no append is scheduled.
C7_NoOpUnlessSourceAndContinuation ==
    [][ /\ ~NonEmptySourceList(translations') =>
              (entries' = <<>> /\ ~loading' /\ timers' = <<>>)
        /\ ~hasMore =>
              /\ <<entries', currentPage', loading', hasMore'>>
                   = <<entries, currentPage, loading, hasMore>>
              /\ Len(timers') <= Len(timers) ]_vars

\* C8: two toggleTheme invocations in a row return the dark-mode Preference
\* to its original value and write storage exactly twice: the negated value,
\* then the original value.
C8_DoubleToggleRestores ==
    \A i \in 1..(Len(toggleLog) - 1) :
        LET original == toggleLog[i].before
            last == i + 2 > Len(toggleLog)
            endValue == IF last THEN darkMode ELSE toggleLog[i + 2].before
            endWrites == IF last THEN Len(writes) ELSE toggleLog[i + 2].nwrites
        IN  /\ endValue = original
            /\ SubSeq(writes, toggleLog[i].nwrites + 1, endWrites)
                 = <<JSONstringify(Not(original)), JSONstringify(original)>>

\* C9: no reachable sequence of events ends in an uncaught exception.
C9_NoUncaughtException == ~crashed

\* C10: once SourceList is non-empty (translations.length > 0, the test of
\* the initial-load effect) while EntryLog is empty, and no visibility signal
\* ever fires, the first batch is eventually appended, no
\* second batch is, and the system settles at len(EntryLog) = 10,
\* pageCount = 1, loading = false.
C10_InitialTriggerLoadsOneBatch ==
    /\ (LengthIsPositive(translations) /\ entries = <<>>)
          ~> (Len(entries) = entriesPerPage /\ currentPage = 1 /\ ~loading)
    /\ [](Len(entries) <= entriesPerPage)

\* C11: an accepted requestMore sets loading to true; its delayed completion
\* appends exactly 10 entries, adds 1 to pageCount and resets loading in one
\* update, so len(EntryLog) = 10 * pageCount in every state, and the start
\* index pageCount * 10 used by the next batch equals len(EntryLog) at the
\* moment that batch is appended.
C11_StartIndexEqualsLogLength ==
    /\ Len(entries) = entriesPerPage * currentPage
    /\ Len(entries) + Len(queued.entries)
         = entriesPerPage * (currentPage + queued.pages)
    /\ timers # <<>> =>
          /\ Pending(queued.loading, loading)
          /\ Head(timers).currentPage * entriesPerPage
               = Len(entries) + Len(queued.entries)

\* C12: pagination terminates: for a non-empty SourceList the system ends
\* with continuation = false, loading = false and len(EntryLog) exactly
\* 20 * len(SourceList), and stays there; stated on finite runs: whenever
\* continuation is false, loading is false and EntryLog holds exactly
\* 20 * len(SourceList) entries.
C12_ExhaustedAtExactlyCap ==
    (NonEmptySourceList(translations) /\ ~hasMore) =>
        /\ ~loading
        /\ Len(entries) = CapFactor * LengthOf(translations)

IsPrefix(p, seq) == Len(p) <= Len(seq) /\ SubSeq(seq, 1, Len(p)) = p

\* C13: EntryLog is append-only: in every transition the entries already in
\* it remain as a prefix; and a step that changes SearchTerm, toggles the
\* theme or changes the scroll-to-top flag (search input, toggleTheme,
\* pickRandomVisible, scrollToTop, scroll updates) leaves EntryLog, pageCount,
\* loading, continuation and SourceList, and every pending update of them,
\* unchanged.
C13_AppendOnlyAndFrame ==
    [][ /\ IsPrefix(entries, entries')
        /\ (\/ searchTerm' # searchTerm
            \/ toggleLog' # toggleLog
            \/ showScrollTop' # showScrollTop)
             => UNCHANGED <<entries, currentPage, loading, hasMore, translations,
                            queued, timers>> ]_vars

\* a second batch was appended to a non-empty EntryLog, and a search term,
\* a theme toggle and a scroll position are in effect
C13_Witness ==
    /\ Len(entries) >= 2 * entriesPerPage
    /\ searchTerm # <<>>
    /\ toggleLog # <<>>
    /\ showScrollTop

\* C14: startup does not lose the saved preference: when storage holds a
\* boolean b as the mount effects run, the value the read effect hands to
\* setDarkMode is b, the re-render that applies it makes the in-memory value
\* b, and when storage holds nothing the value stays false; in every settled
\* state (mounted, no dark-mode update waiting for a render) the stored value
\* is the in-memory value.
C14_StartupKeepsSavedPreference ==
    [][ /\ (~mounted /\ mounted') =>
              /\ storage = <<"true">> =>
                    Pending(queued'.darkMode, darkMode') = Bool(TRUE)
              /\ storage = <<"false">> =>
                    Pending(queued'.darkMode, darkMode') = Bool(FALSE)
              /\ storage = <<>> =>
                    Pending(queued'.darkMode, darkMode') = Bool(FALSE)
        /\ queued.darkMode # <<>> =>
              \/ queued'.darkMode = queued.darkMode
              \/ queued'.darkMode = <<>> /\ darkMode' = queued.darkMode[1]
        /\ (mounted' /\ ~crashed' /\ queued'.darkMode = <<>>) =>
              /\ darkMode' = Bool(TRUE) => storage' = <<"true">>
              /\ darkMode' = Bool(FALSE) => storage' = <<"false">> ]_vars

\* storage held "true" at startup: the write effect stored "false", the
\* re-render restored true in memory and in storage, no toggle involved
C14_Witness ==
    /\ writes = <<"false", "true">>
    /\ toggleLog = <<>>
    /\ queued.darkMode = <<>>
    /\ darkMode = Bool(TRUE)
    /\ storage = <<"true">>

====
